---------------------------- MODULE Spec2Model ----------------------------
(***************************************************************************)
(* rowstats: per-stroke rowing telemetry.  src/main.py reads session       *)
(* files (get_table), labels every stroke with the leg it belongs to and   *)
(* cleans the numeric columns (split_frames), and joins the sessions       *)
(* (create_joined_dataset).                                                *)
(*                                                                         *)
(* Texts are sequences of one-character strings, so that strptime,         *)
(* to_numeric and basename are computed from the characters.  Numbers are  *)
(* fixed-point with one decimal digit: the integer n stands for n/10.      *)
(***************************************************************************)
EXTENDS Integers, Sequences, FiniteSets, TLC

VARIABLES
    file_names,                 \* create_joined_dataset: the argument
    i,                          \* position of the for loop in file_names
    pc,                         \* "loop" | "scan" | "returned" | "raised"
    parsed_data,                \* create_joined_dataset: local parsed_data
    columns,                    \* column names of parsed_data
    directions,                 \* split_frames: local directions
    is_up,                      \* split_frames: local is_up
    pending_transition,         \* split_frames: local pending_transition
    elements_since_transition,  \* split_frames: local elements_since_transition
    datasets,                   \* create_joined_dataset: local datasets
    skipped,                    \* the "Skipping file" log records
    result,                     \* the returned DataFrame
    san_pc,                     \* sanitizer runs: "in" | "once" | "twice"
    san_df,                     \* sanitizer runs: the frame before line 100
    san_once,                   \* ... after one pass of lines 100-107
    san_twice,                  \* ... after a second pass
    t_pc,                       \* get_table runs: "in" | "done"
    t_path,                     \* get_table runs: the argument file_path
    t_file,                     \* get_table runs: the text of the file
    t_out,                      \* get_table runs: what get_table did
    f_pc,                       \* one-file runs: "in" | "done"
    f_table,                    \* one-file runs: the rows get_table returned
    f_out,                      \* one-file runs: the frame of lines 129-131
    last_modified,              \* webserver.py: the global last_modified
    clock,                      \* webserver.py: what time.time() returns
    w_pc,                       \* watcher thread: "idle" | "event" | "stamp"
    w_path,                     \* watcher thread: event.src_path
    w_stamp,                    \* watcher thread: the value of time.time()
    h_pc,                       \* server thread: "idle" | "reload" | "page"
    replies,                    \* the /reload responses sent, and when
    stamps                      \* the times index.html events were stamped

joinVars == <<file_names, i, pc, parsed_data, columns, directions, is_up,
              pending_transition, elements_since_transition, datasets,
              skipped, result>>
sanVars == <<san_pc, san_df, san_once, san_twice>>
tblVars == <<t_pc, t_path, t_file, t_out>>
fileVars == <<f_pc, f_table, f_out>>
webVars ==
    <<last_modified, clock, w_pc, w_path, w_stamp, h_pc, replies, stamps>>
vars == <<joinVars, sanVars, tblVars, fileVars, webVars>>

\* What a run of one part leaves alone.
joinRest == <<sanVars, tblVars, fileVars, webVars>>
sanRest == <<joinVars, tblVars, fileVars, webVars>>
tblRest == <<joinVars, sanVars, fileVars, webVars>>
fileRest == <<joinVars, sanVars, tblVars, webVars>>
webRest == <<joinVars, sanVars, tblVars, fileVars>>

---------------------------------------------------------------------------
(* Bounds of the model. *)

MaxFiles == 2        \* files in a batch
MaxRows == 11        \* data rows of the file of a one-file batch
MaxRowsBatch == 2    \* data rows per file in a batch of several files
MaxSanRows == 3      \* rows of an enumerated sanitizer input
MaxLines == 3        \* lines of a file given to get_table on its own
MaxFileRows == 3     \* rows after the first in a table processed on its own
MaxClock == 3        \* the last value time.time() takes
MaxReplies == 2      \* /reload responses sent

---------------------------------------------------------------------------
(* Cells of a DataFrame: a str, a float, or NaN. *)

Str(s) == [k |-> "str", s |-> s, n |-> 0]
Num(n) == [k |-> "num", s |-> <<>>, n |-> n]
NaN == [k |-> "nan", s |-> <<>>, n |-> 0]
Absent == [k |-> "absent", s |-> <<>>, n |-> 0]   \* the column does not exist

Digit == {"0", "1", "2", "3", "4", "5", "6", "7", "8", "9"}

DigitVal(c) ==
    CASE c = "0" -> 0 [] c = "1" -> 1 [] c = "2" -> 2 [] c = "3" -> 3
      [] c = "4" -> 4 [] c = "5" -> 5 [] c = "6" -> 6 [] c = "7" -> 7
      [] c = "8" -> 8 [] c = "9" -> 9

IsDigits(s) == Len(s) >= 1 /\ \A j \in 1..Len(s) : s[j] \in Digit

RECURSIVE DecVal(_)
DecVal(s) ==
    IF s = <<>> THEN 0
    ELSE 10 * DecVal(SubSeq(s, 1, Len(s) - 1)) + DigitVal(s[Len(s)])

\* Position of the first c in s, 0 when there is none.
IndexOf(s, c) ==
    IF \E j \in 1..Len(s) : s[j] = c
    THEN CHOOSE j \in 1..Len(s) : s[j] = c /\ \A h \in 1..(j - 1) : s[h] # c
    ELSE 0

\* Position of the last c in s, 0 when there is none.
LastIndexOf(s, c) ==
    IF \E j \in 1..Len(s) : s[j] = c
    THEN CHOOSE j \in 1..Len(s) : s[j] = c /\ \A h \in (j + 1)..Len(s) : s[h] # c
    ELSE 0

Tail0(s, j) == SubSeq(s, j + 1, Len(s))

---------------------------------------------------------------------------
(* datetime.strptime(text, '%H:%M:%S.%f'): the four digit runs separated   *)
(* by ':' ':' '.'; %H is 1-2 digits up to 23, %M 1-2 digits up to 59, %S   *)
(* 1-2 digits up to 59 (60 and 61 match the pattern and are then refused   *)
(* by datetime), %f 1-6 digits.  Anything else is a ValueError.            *)

Strptime(s) ==
    LET c1 == IndexOf(s, ":")
        r1 == Tail0(s, c1)
        c2 == IndexOf(r1, ":")
        r2 == Tail0(r1, c2)
        d  == IndexOf(r2, ".")
        H  == SubSeq(s, 1, c1 - 1)
        M  == SubSeq(r1, 1, c2 - 1)
        S  == SubSeq(r2, 1, d - 1)
        F  == Tail0(r2, d)
        ok == /\ c1 > 0 /\ c2 > 0 /\ d > 0
              /\ IsDigits(H) /\ Len(H) <= 2 /\ DecVal(H) <= 23
              /\ IsDigits(M) /\ Len(M) <= 2 /\ DecVal(M) <= 59
              /\ IsDigits(S) /\ Len(S) <= 2 /\ DecVal(S) <= 59
              /\ IsDigits(F) /\ Len(F) <= 6
    IN  IF ok THEN [ok |-> TRUE, minute |-> DecVal(M)]
        ELSE [ok |-> FALSE, minute |-> 0]

\* The try block of the scan loop: what reading and parsing
\* row['Split (GPS)'] does.  A str parses or raises ValueError, a missing
\* column raises KeyError, a float (an empty cell is NaN) raises TypeError.
ParseSplit(cell) ==
    CASE cell.k = "str" ->
            LET t == Strptime(cell.s)
            IN  IF t.ok THEN [exc |-> "none", minute |-> t.minute]
                ELSE [exc |-> "ValueError", minute |-> 0]
      [] cell.k = "absent" -> [exc |-> "KeyError", minute |-> 0]
      [] OTHER -> [exc |-> "TypeError", minute |-> 0]

\* except (ValueError, KeyError)
Caught(exc) == exc \in {"ValueError", "KeyError"}

---------------------------------------------------------------------------
(* pd.to_numeric(column, errors='coerce') on one cell.  A float stays, NaN *)
(* stays; a str of the form [-]digits[.digit] is its value (in tenths),    *)
(* and every other text of the model's samples is coerced to NaN.          *)

UnsignedTenths(s) ==
    LET d == IndexOf(s, ".")
    IN  IF d = 0
        THEN IF IsDigits(s) THEN Num(10 * DecVal(s)) ELSE NaN
        ELSE LET W == SubSeq(s, 1, d - 1)
                 F == Tail0(s, d)
             IN  IF IsDigits(W) /\ IsDigits(F) /\ Len(F) = 1
                 THEN Num(10 * DecVal(W) + DecVal(F))
                 ELSE NaN

ToNumeric(cell) ==
    CASE cell.k = "num" -> cell
      [] cell.k = "str" ->
            IF Len(cell.s) >= 1 /\ cell.s[1] = "-"
            THEN LET u == UnsignedTenths(Tail(cell.s))
                 IN  IF u.k = "num" THEN Num(0 - u.n) ELSE NaN
            ELSE UnsignedTenths(cell.s)
      [] OTHER -> NaN

IsNum(cell) == cell.k = "num"

---------------------------------------------------------------------------
(* The constants of split_frames. *)

MinuteLimit == 12    \* split_time.minute > 12
MinRun == 8          \* elements_since_transition >= 8
JumpLimit == 100     \* diff() > 100
MinRate == 10        \* 'Stroke Rate' < 10
MaxRate == 34        \* 'Stroke Rate' > 34

Tenths(n) == 10 * n

---------------------------------------------------------------------------
(* split_frames, the scan loop (lines 73-93): one iteration on one row.    *)
(* st is the record of the three locals; the result is the new locals and  *)
(* the label appended to directions.                                       *)

InitialScanDown ==
    [is_up |-> FALSE, pending_transition |-> TRUE,
     elements_since_transition |-> 0]
InitialScan ==
    [is_up |-> TRUE, pending_transition |-> TRUE, elements_since_transition |-> 0]

\* line 84: the run since the last transition is long enough to be a leg
RunLongEnoughOff(n) == n > MinRun
RunLongEnoughShort(n) == n >= MinRun - 1
RunLongEnough(n) == n >= MinRun

\* lines 81-87
TransitionNoRollover(st, minute) ==
    IF minute > MinuteLimit /\ ~st.pending_transition
    THEN [st EXCEPT !.pending_transition = TRUE]
    ELSE IF /\ minute <= MinuteLimit
            /\ (st.pending_transition
                  \/ RunLongEnough(st.elements_since_transition))
    THEN [is_up |-> IF RunLongEnough(st.elements_since_transition)
                    THEN ~st.is_up ELSE st.is_up,
          elements_since_transition |-> 0,
          pending_transition |-> FALSE]
    ELSE st
TransitionKeepCount(st, minute) ==
    IF minute > MinuteLimit /\ ~st.pending_transition
    THEN [st EXCEPT !.pending_transition = TRUE]
    ELSE IF minute <= MinuteLimit /\ st.pending_transition
    THEN [is_up |-> IF RunLongEnough(st.elements_since_transition)
                    THEN ~st.is_up ELSE st.is_up,
          elements_since_transition |->
              IF RunLongEnough(st.elements_since_transition)
              THEN 0 ELSE st.elements_since_transition,
          pending_transition |-> FALSE]
    ELSE st
Transition(st, minute) ==
    IF minute > MinuteLimit /\ ~st.pending_transition
    THEN [st EXCEPT !.pending_transition = TRUE]
    ELSE IF minute <= MinuteLimit /\ st.pending_transition
    THEN [is_up |-> IF RunLongEnough(st.elements_since_transition)
                    THEN ~st.is_up ELSE st.is_up,
          elements_since_transition |-> 0,
          pending_transition |-> FALSE]
    ELSE st

\* lines 89-93
Label(st) ==
    IF st.pending_transition
    THEN [st |-> st, dir |-> "turning"]
    ELSE [st |-> [st EXCEPT !.elements_since_transition = @ + 1],
          dir |-> IF st.is_up THEN "up" ELSE "down"]

\* lines 74-93, for a row whose split cell raised nothing or a caught error
ScanStep(st, cell) ==
    LET p == ParseSplit(cell)
    IN  IF p.exc = "none" THEN Label(Transition(st, p.minute))
        ELSE [st |-> st, dir |-> "turning"]

---------------------------------------------------------------------------
(* split_frames, lines 95-98: attach the labels and drop the turning rows. *)

WithDir(df, dirs) ==
    [j \in 1..Len(df) |->
        [idx |-> df[j].idx, stroke |-> df[j].stroke, split |-> df[j].split,
         dist |-> df[j].dist, rate |-> df[j].rate, dir |-> dirs[j]]]

KeepAll(df) == df
DropTurning(df) == SelectSeq(df, LAMBDA r : r.dir # "turning")

---------------------------------------------------------------------------
(* split_frames, lines 100-107: the numeric clean-up of the kept rows.     *)
(* A comparison with NaN is False, and diff() is NaN on the first row and  *)
(* wherever one of the two distances is NaN.                               *)

\* lines 101-102
Coerce(df) ==
    [j \in 1..Len(df) |->
        [df[j] EXCEPT !.dist = ToNumeric(@), !.rate = ToNumeric(@)]]

\* Series.diff()
DiffFill(df, j) ==
    IF ~IsNum(df[j].dist) THEN NaN
    ELSE IF j = 1 \/ ~IsNum(df[j - 1].dist) THEN Num(df[j].dist.n)
    ELSE Num(df[j].dist.n - df[j - 1].dist.n)
Diff(df, j) ==
    IF j = 1 \/ ~IsNum(df[j].dist) \/ ~IsNum(df[j - 1].dist) THEN NaN
    ELSE Num(df[j].dist.n - df[j - 1].dist.n)

Gt(cell, n) == IsNum(cell) /\ cell.n > n
Lt(cell, n) == IsNum(cell) /\ cell.n < n

\* df.loc[mask, ['Distance (GPS)', 'Stroke Rate']] = np.nan
DropWhere(df, mask) ==
    LET keep == {j \in 1..Len(df) : ~mask[j]}
        RECURSIVE Pick(_)
        Pick(j) == IF j > Len(df) THEN <<>>
                   ELSE IF j \in keep THEN <<df[j]>> \o Pick(j + 1)
                   ELSE Pick(j + 1)
    IN  Pick(1)
NullWhere(df, mask) ==
    [j \in 1..Len(df) |->
        IF mask[j] THEN [df[j] EXCEPT !.dist = NaN, !.rate = NaN] ELSE df[j]]

\* line 105
JumpMaskIncl(df) ==
    [j \in 1..Len(df) |->
        IsNum(Diff(df, j)) /\ Diff(df, j).n >= Tenths(JumpLimit)]
JumpMask(df) == [j \in 1..Len(df) |-> Gt(Diff(df, j), Tenths(JumpLimit))]
\* line 106
LowMaskIncl(df) ==
    [j \in 1..Len(df) |-> IsNum(df[j].rate) /\ df[j].rate.n <= Tenths(MinRate)]
LowMask(df) == [j \in 1..Len(df) |-> Lt(df[j].rate, Tenths(MinRate))]
\* line 107
HighMask(df) == [j \in 1..Len(df) |-> Gt(df[j].rate, Tenths(MaxRate))]

\* lines 100-107
Sanitize(df) ==
    LET a == Coerce(df)
        b == NullWhere(a, JumpMask(a))
        c == NullWhere(b, LowMask(b))
    IN  NullWhere(c, HighMask(c))

\* lines 95-109, given the labels the loop produced
FinishFramesLate(df, dirs) == DropTurning(Sanitize(WithDir(df, dirs)))
FinishFrames(df, dirs) == Sanitize(DropTurning(WithDir(df, dirs)))

\* lines 67-93 as a whole: the labels of the rows from j on, when the scan
\* reaches row j with the locals st and no row raises past the handler
RECURSIVE ScanFrom(_, _, _)
ScanFrom(st, df, j) ==
    IF j > Len(df) THEN <<>>
    ELSE LET step == ScanStep(st, df[j].split)
         IN  <<step.dir>> \o ScanFrom(step.st, df, j + 1)

\* split_frames(df), lines 53-109
SplitFrames(df) == FinishFrames(df, ScanFrom(InitialScan, df, 1))

---------------------------------------------------------------------------
(* get_table (lines 33-50).  A file is its path and its lines; the lines   *)
(* after the header line are the data rows, which the scan reads one by    *)
(* one.                                                                    *)

Marker == "Per-Stroke Data:"

DroppedColumns ==
    {"Power", "Catch", "Slip", "Finish", "Wash", "Work", "Distance (IMP)",
     "Split (IMP)", "Speed (IMP)", "Distance/Stroke (IMP)", "Heart Rate",
     "Force Avg", "Force Max", "Max Force Angle", "GPS Lat.", "GPS Lon."}

KeptColumns == {"Total Strokes", "Split (GPS)", "Distance (GPS)", "Stroke Rate"}

\* The column names read_csv takes from a header line.
HeaderColumns(line) ==
    CASE line = "HEADER" -> DroppedColumns \cup KeptColumns
      [] line = "HEADER without Split (GPS)" ->
            DroppedColumns \cup (KeptColumns \ {"Split (GPS)"})
      [] line = "HEADER without Power" ->
            (DroppedColumns \ {"Power"}) \cup KeptColumns
      [] OTHER -> {line}

\* open(file_path, "r"): a path that names no file cannot be opened
Openable(path) == path # <<>> /\ path[Len(path)] # "/"

\* A file's text is its lines, and whether the last line ends with "\n".
\* The text before the marker on the lines of the sample files.
LinePrefixes == {"", "Notes on "}

\* line 37: marker is the text "Per-Stroke Data:" followed by "\n"
EndsWithMarker(line) == \E p \in LinePrefixes : line = p \o Marker

\* line 38: the lines in which an occurrence of marker ends
MarkerEnds(file) ==
    {m \in 1..Len(file.lines) :
        /\ EndsWithMarker(file.lines[m])
        /\ (m < Len(file.lines) \/ file.terminated)}

Min(S) == CHOOSE m \in S : \A n \in S : m <= n

\* lines 41-42: the lines after the first occurrence, blank lines skipped
CsvLines(file) ==
    {n \in (Min(MarkerEnds(file)) + 1)..Len(file.lines) : file.lines[n] # ""}

NoTable(exc) == [exc |-> exc, columns |-> {}, header |-> 0, rows |-> {}]

GetTable(path, file) ==
    IF ~Openable(path) THEN NoTable("OSError")
    ELSE IF MarkerEnds(file) = {} THEN NoTable("ValueError")
    ELSE IF CsvLines(file) = {} THEN NoTable("EmptyDataError")
    ELSE LET h == Min(CsvLines(file))
         IN  IF ~(DroppedColumns \subseteq HeaderColumns(file.lines[h]))
             THEN NoTable("KeyError")
             ELSE [exc |-> "none",
                   columns |-> HeaderColumns(file.lines[h]) \ DroppedColumns,
                   header |-> h,
                   rows |-> CsvLines(file) \ {h}]

\* os.path.basename
WholePath(path) == path
Basename(path) == Tail0(path, LastIndexOf(path, "/"))

\* pd.concat(datasets, ignore_index=True)
RECURSIVE Flatten(_)
Flatten(ds) == IF ds = <<>> THEN <<>> ELSE Head(ds) \o Flatten(Tail(ds))

Reindex(df) == [j \in 1..Len(df) |-> [df[j] EXCEPT !.idx = j - 1]]

RECURSIVE Reverse(_)
Reverse(s) == IF s = <<>> THEN <<>> ELSE Reverse(Tail(s)) \o <<Head(s)>>

ConcatReversed(ds) == Reindex(Flatten(Reverse(ds)))
Concat(ds) == Reindex(Flatten(ds))

\* lines 136-140
ReturnEmpty(ds) == [raised |-> FALSE, value |-> Concat(ds)]
RaiseOnNoRows(ds) ==
    IF Flatten(ds) = <<>> THEN [raised |-> TRUE, value |-> <<>>]
    ELSE [raised |-> FALSE, value |-> Concat(ds)]
ReturnOrRaise(ds) ==
    IF ds = <<>> THEN [raised |-> TRUE, value |-> <<>>]
    ELSE [raised |-> FALSE, value |-> Concat(ds)]

---------------------------------------------------------------------------
(* The inputs of the model. *)

DirA == <<"d", "/", "a">>     \* d/a
PlainB == <<"b">>             \* b
DirOnly == <<"d", "/">>       \* d/, a directory

Paths == {DirA, PlainB, DirOnly}

Injective(s) == \A j, h \in 1..Len(s) : s[j] = s[h] => j = h

FileNameLists ==
    {s \in UNION {[1..n -> Paths] : n \in 0..MaxFiles} : Injective(s)}

\* What a file holds up to and including its header line.
FileHeads ==
    { [lines |-> ls, terminated |-> TRUE] :
        ls \in { <<"Session summary", Marker, "HEADER">>,
                 <<Marker, "HEADER">>,
                 <<Marker, "HEADER without Split (GPS)">>,
                 <<"Session summary", Marker, "HEADER without Power">>,
                 <<"Session summary", "HEADER">>,
                 <<"Session summary", Marker>>,
                 <<>> } }

LowText == <<"0", "0", ":", "1", "2", ":", "5", "9", ".", "9">>   \* 00:12:59.9
HighText == <<"0", "0", ":", "1", "3", ":", "0", "0", ".", "0">>  \* 00:13:00.0
BadText == <<"0", "0", ":", "1", "3", ":", "0", "0">>             \* 00:13:00

SplitCells == {Str(LowText), Str(HighText), Str(BadText), NaN}

DigitChar(d) == CHOOSE c \in Digit : DigitVal(c) = d

RECURSIVE DecText(_)
DecText(n) ==
    IF n < 10 THEN <<DigitChar(n)>>
    ELSE DecText(n \div 10) \o <<DigitChar(n % 10)>>

\* The numeric columns of the k-th data row of a file: the boat advances 60
\* metres a stroke, and the stroke rates cycle through RateTexts.
RateTexts ==
    << <<"2", "0">>, <<"3", "4">>, <<"9", ".", "5">>, <<"1", "0">>,
       <<"3", "5">>, <<"-", "-">> >>

DataRow(k, cell) ==
    [idx |-> k, stroke |-> k, split |-> cell,
     dist |-> Str(DecText(60 * k)),
     rate |-> Str(RateTexts[(k % Len(RateTexts)) + 1])]

RowBound == IF Len(file_names) = 1 THEN MaxRows ELSE MaxRowsBatch

\* The sample files hold at most one row whose split text does not parse.
HasBadText(df) == \E j \in 1..Len(df) : df[j].split = Str(BadText)

---------------------------------------------------------------------------
(* create_joined_dataset (lines 123-140). *)

JoinInit ==
    /\ file_names \in FileNameLists
    /\ i = 1
    /\ pc = "loop"
    /\ parsed_data = <<>>
    /\ columns = {}
    /\ directions = <<>>
    /\ is_up = InitialScan.is_up
    /\ pending_transition = InitialScan.pending_transition
    /\ elements_since_transition = InitialScan.elements_since_transition
    /\ datasets = <<>>
    /\ skipped = <<>>
    /\ result = <<>>

JoinIdle ==
    /\ file_names = <<>>
    /\ i = 1
    /\ pc = "idle"
    /\ parsed_data = <<>>
    /\ columns = {}
    /\ directions = <<>>
    /\ is_up = InitialScan.is_up
    /\ pending_transition = InitialScan.pending_transition
    /\ elements_since_transition = InitialScan.elements_since_transition
    /\ datasets = <<>>
    /\ skipped = <<>>
    /\ result = <<>>

SanIdle ==
    /\ san_pc = "idle"
    /\ san_df = <<>>
    /\ san_once = <<>>
    /\ san_twice = <<>>

EmptyFile == [lines |-> <<>>, terminated |-> FALSE]

TblIdle ==
    /\ t_pc = "idle"
    /\ t_path = <<>>
    /\ t_file = EmptyFile
    /\ t_out = NoTable("none")

FileIdle ==
    /\ f_pc = "idle"
    /\ f_table = <<>>
    /\ f_out = [exc |-> "none", frame |-> <<>>]

WebIdle ==
    /\ last_modified = 0
    /\ clock = 0
    /\ w_pc = "off"
    /\ w_path = ""
    /\ w_stamp = 0
    /\ h_pc = "off"
    /\ replies = <<>>
    /\ stamps = {}

\* The locals of split_frames when it is entered (lines 67-70), and after
\* it is left.
KeepScan ==
    UNCHANGED <<directions, is_up, pending_transition,
                elements_since_transition>>
ResetScan ==
    /\ directions' = <<>>
    /\ is_up' = InitialScan.is_up
    /\ pending_transition' = InitialScan.pending_transition
    /\ elements_since_transition' = InitialScan.elements_since_transition

\* lines 133-134: the file is logged and skipped; datasets is as it was
KeepPartial(ds, partial) == Append(ds, partial)
AfterSkip(ds, partial) == ds

Skip(exc, df) ==
    /\ skipped' = Append(skipped, [path |-> file_names[i], exc |-> exc])
    /\ datasets' = AfterSkip(datasets, df)
    /\ i' = i + 1
    /\ pc' = "loop"
    /\ parsed_data' = <<>>
    /\ ResetScan
    /\ UNCHANGED <<file_names, result>>

\* lines 127-130: get_table returns, the first row is dropped, and
\* split_frames is entered
GetTableOk ==
    /\ pc = "loop" /\ i <= Len(file_names)
    /\ \E file \in FileHeads :
         LET g == GetTable(file_names[i], file)
         IN  /\ g.exc = "none"
             /\ columns' = g.columns
    /\ parsed_data' = <<>>
    /\ pc' = "scan"
    /\ ResetScan
    /\ UNCHANGED <<file_names, i, datasets, skipped, result, joinRest>>

\* line 127 raises: lines 48-50, then 133-134
GetTableRaises ==
    /\ pc = "loop" /\ i <= Len(file_names)
    /\ \E file \in FileHeads :
         LET g == GetTable(file_names[i], file)
         IN  /\ g.exc # "none"
             /\ Skip(g.exc, <<>>)
    /\ UNCHANGED <<columns, joinRest>>

Tagged(df, name) ==
    [j \in 1..Len(df) |->
        [idx |-> df[j].idx, stroke |-> df[j].stroke, split |-> df[j].split,
         dist |-> df[j].dist, rate |-> df[j].rate, dir |-> df[j].dir,
         file_name |-> name]]

\* lines 73-93: one iteration of the scan loop, on the next row of the file
ScanRow ==
    /\ pc = "scan" /\ Len(parsed_data) < RowBound
    /\ \E cell \in SplitCells :
         LET shown == IF "Split (GPS)" \in columns THEN cell ELSE Absent
             row == DataRow(Len(parsed_data) + 1, shown)
             exc == ParseSplit(shown).exc
             st == [is_up |-> is_up, pending_transition |-> pending_transition,
                    elements_since_transition |-> elements_since_transition]
             step == ScanStep(st, shown)
         IN  /\ cell = Str(BadText) => ~HasBadText(parsed_data)
             /\ IF exc = "none" \/ Caught(exc)
                THEN /\ parsed_data' = Append(parsed_data, row)
                     /\ directions' = Append(directions, step.dir)
                     /\ is_up' = step.st.is_up
                     /\ pending_transition' = step.st.pending_transition
                     /\ elements_since_transition' =
                            step.st.elements_since_transition
                     /\ UNCHANGED <<file_names, i, pc, datasets, skipped, result>>
                ELSE Skip(exc, Tagged(FinishFrames(parsed_data, directions),
                                       Basename(file_names[i])))
    /\ UNCHANGED <<columns, joinRest>>

\* lines 95-109 and 131-132: the loop is over; the frame is finished,
\* tagged and appended
EndFrames ==
    /\ pc = "scan"
    /\ LET frame == Tagged(FinishFrames(parsed_data, directions),
                           Basename(file_names[i]))
       IN  /\ parsed_data' = frame
           /\ datasets' = Append(datasets, frame)
    /\ i' = i + 1
    /\ pc' = "loop"
    /\ ResetScan
    /\ UNCHANGED <<file_names, columns, skipped, result, joinRest>>

\* lines 136-140
Return ==
    /\ pc = "loop" /\ i > Len(file_names)
    /\ LET r == ReturnOrRaise(datasets)
       IN  /\ pc' = IF r.raised THEN "raised" ELSE "returned"
           /\ result' = r.value
    /\ UNCHANGED <<file_names, i, parsed_data, columns, directions, is_up,
                   pending_transition, elements_since_transition, datasets,
                   skipped, joinRest>>

Init == JoinInit /\ SanIdle /\ TblIdle /\ FileIdle /\ WebIdle

Next == GetTableOk \/ GetTableRaises \/ ScanRow \/ EndFrames \/ Return

Spec == Init /\ [][Next]_vars

---------------------------------------------------------------------------
(* The clean-up of split_frames (lines 100-107) on its own.  A frame of    *)
(* kept rows is built row by row from the sample cells, up to MaxSanRows   *)
(* rows, or is one of the two example sessions; the clean-up is then run   *)
(* once, and once more on its own output.                                  *)

SanDistCells ==
    {Str(<<"0">>), Str(<<"1", "0", "0">>), Str(<<"1", "0", "0", ".", "5">>),
     Str(<<"-", "-">>)}

SanRateCells ==
    {Str(<<"9", ".", "9">>), Str(<<"1", "0">>), Str(<<"3", "4", ".", "1">>), NaN}

\* The k-th kept row: the index labels have the gaps the filter leaves.
KeptRow(k, dist, rate) ==
    [idx |-> 2 * k, stroke |-> 2 * k, split |-> Str(LowText),
     dist |-> dist, rate |-> rate, dir |-> IF k <= 1 THEN "up" ELSE "down"]

Frame(dists, rates) ==
    [j \in 1..Len(dists) |-> KeptRow(j, dists[j], rates[j])]

Twenty == Str(<<"2", "0">>)

\* distances 0, 10, 20, 500, 30
JumpExample ==
    Frame(<<Str(<<"0">>), Str(<<"1", "0">>), Str(<<"2", "0">>),
            Str(<<"5", "0", "0">>), Str(<<"3", "0">>)>>,
          <<Twenty, Twenty, Twenty, Twenty, Twenty>>)

\* stroke rates 9, 35, 10, 34
BoundsExample ==
    Frame(<<Str(<<"0">>), Str(<<"1", "0">>), Str(<<"2", "0">>),
            Str(<<"3", "0">>)>>,
          <<Str(<<"9">>), Str(<<"3", "5">>), Str(<<"1", "0">>),
            Str(<<"3", "4">>)>>)

SanInit ==
    /\ san_pc = "in"
    /\ san_df \in {<<>>, JumpExample, BoundsExample}
    /\ san_once = <<>>
    /\ san_twice = <<>>

AddKeptRow ==
    /\ san_pc = "in" /\ Len(san_df) < MaxSanRows
    /\ \E dist \in SanDistCells, rate \in SanRateCells :
         san_df' = Append(san_df, KeptRow(Len(san_df) + 1, dist, rate))
    /\ UNCHANGED <<san_pc, san_once, san_twice, sanRest>>

SanitizeOnce ==
    /\ san_pc = "in"
    /\ san_once' = Sanitize(san_df)
    /\ san_pc' = "once"
    /\ UNCHANGED <<san_df, san_twice, sanRest>>

SanitizeAgain ==
    /\ san_pc = "once"
    /\ san_twice' = Sanitize(san_once)
    /\ san_pc' = "twice"
    /\ UNCHANGED <<san_df, san_once, sanRest>>

SanNext == AddKeptRow \/ SanitizeOnce \/ SanitizeAgain

InitSan == JoinIdle /\ SanInit /\ TblIdle /\ FileIdle /\ WebIdle

SpecSan == InitSan /\ [][SanNext]_vars

---------------------------------------------------------------------------
(* get_table (lines 33-50) on its own.  The text of a file is written line *)
(* by line from the sample lines, up to MaxLines lines, the last of which  *)
(* may lack its "\n"; get_table is then called on the file.                *)

TableLines ==
    {"Session summary", Marker, "Notes on " \o Marker, "", "HEADER",
     "HEADER without Power", "ROW"}

TableInit ==
    /\ t_pc = "in"
    /\ t_path \in Paths
    /\ t_file = EmptyFile
    /\ t_out = NoTable("none")

AddLine ==
    /\ t_pc = "in"
    /\ Len(t_file.lines) < MaxLines
    /\ t_file.lines = <<>> \/ t_file.terminated
    /\ \E line \in TableLines, nl \in BOOLEAN :
         t_file' = [lines |-> Append(t_file.lines, line), terminated |-> nl]
    /\ UNCHANGED <<t_pc, t_path, t_out, tblRest>>

ReadTable ==
    /\ t_pc = "in"
    /\ t_out' = GetTable(t_path, t_file)
    /\ t_pc' = "done"
    /\ UNCHANGED <<t_path, t_file, tblRest>>

TableNext == AddLine \/ ReadTable

InitTable == JoinIdle /\ SanIdle /\ TableInit /\ FileIdle /\ WebIdle

SpecTable == InitTable /\ [][TableNext]_vars

---------------------------------------------------------------------------
(* The body of the loop of create_joined_dataset (lines 127-131) on one    *)
(* file.  The table get_table returned is its first row, one of the sample *)
(* first rows, and up to MaxFileRows rows after it, built row by row from  *)
(* the sample cells; lines 129-131 are then run on it.                     *)

\* line 129: parsed_data.iloc[1:]
KeepFirst(df) == df
DropFirst(df) == Tail0(df, 1)

\* lines 129-131: the tagged frame, or the exception that leaves the scan
ProcessFile(table, path) ==
    LET df == DropFirst(table)
        raising == {j \in 1..Len(df) :
                       LET exc == ParseSplit(df[j].split).exc
                       IN  exc # "none" /\ ~Caught(exc)}
    IN  IF raising # {}
        THEN [exc |-> ParseSplit(df[Min(raising)].split).exc, frame |-> <<>>]
        ELSE [exc |-> "none",
              frame |-> Tagged(SplitFrames(df), Basename(path))]

FileSplitCells == {Str(LowText), Str(HighText)}

FileDistCells ==
    {Str(<<"0">>), Str(<<"1", "0", "0">>), Str(<<"2", "5", "0">>),
     Str(<<"4", "0", "0">>), Str(<<"-", "-">>)}

\* The row of units the device writes under the header.
UnitsRow ==
    [split |-> Str(<<"(", "/", "5", "0", "0", "m", ")">>),
     dist |-> Str(<<"(", "m", ")">>),
     rate |-> Str(<<"(", "s", "p", "m", ")">>)]

Twenties == Str(<<"2", "0">>)

\* A row with an empty split cell and a large distance.
EmptySplitRow == [split |-> NaN, dist |-> Str(<<"4", "0", "0">>), rate |-> Twenties]

FirstRows ==
    {UnitsRow, EmptySplitRow,
     [split |-> Str(LowText), dist |-> Str(<<"0">>), rate |-> Twenties]}

FileRows ==
    {[split |-> s, dist |-> d, rate |-> Twenties] :
        s \in FileSplitCells, d \in FileDistCells} \cup {EmptySplitRow}

\* read_csv numbers the rows of the table from 0.
TableRow(k, r) ==
    [idx |-> k, stroke |-> k, split |-> r.split, dist |-> r.dist, rate |-> r.rate]

FileInit ==
    /\ f_pc = "in"
    /\ f_table \in {<<>>} \cup {<<TableRow(0, r)>> : r \in FirstRows}
    /\ f_out = [exc |-> "none", frame |-> <<>>]

AddRow ==
    /\ f_pc = "in"
    /\ f_table # <<>>
    /\ Len(f_table) <= MaxFileRows
    /\ \E r \in FileRows :
         f_table' = Append(f_table, TableRow(Len(f_table), r))
    /\ UNCHANGED <<f_pc, f_out, fileRest>>

ReadFile ==
    /\ f_pc = "in"
    /\ f_out' = ProcessFile(f_table, PlainB)
    /\ f_pc' = "done"
    /\ UNCHANGED <<f_table, fileRest>>

FileNext == AddRow \/ ReadFile

InitFile == JoinIdle /\ SanIdle /\ TblIdle /\ FileInit /\ WebIdle

SpecFile == InitFile /\ [][FileNext]_vars

---------------------------------------------------------------------------
(* webserver.py: the watcher thread (lines 35-40) and the server thread    *)
(* (lines 46-76) around the global last_modified.  The watcher handles one *)
(* event at a time and the TCPServer one request at a time; the two        *)
(* threads interleave statement by statement.  Time is a counter.          *)

WATCHED_FILE == "index.html"

\* The directory part of the sample paths.
PathPrefixes == {"./", "./my"}

\* str.endswith
EndsWith(path, suffix) == \E p \in PathPrefixes : path = p \o suffix

\* line 38
WatchedAny(path) == TRUE
Watched(path) == EndsWith(path, WATCHED_FILE)

EventPaths ==
    {"./" \o WATCHED_FILE, "./my" \o WATCHED_FILE, "./index.html.bak", "."}

RequestPaths == {"/reload", "/", "/plot.png"}

\* line 96: the value of time.time() when the module is loaded
StartTime == 1

WebInit ==
    /\ last_modified = StartTime
    /\ clock = StartTime
    /\ w_pc = "idle"
    /\ w_path = ""
    /\ w_stamp = 0
    /\ h_pc = "idle"
    /\ replies = <<>>
    /\ stamps = {}

Tick ==
    /\ clock < MaxClock
    /\ clock' = clock + 1
    /\ UNCHANGED <<last_modified, w_pc, w_path, w_stamp, h_pc, replies,
                   stamps, webRest>>

\* line 37: the observer thread calls on_modified(event)
OnModified ==
    /\ w_pc = "idle"
    /\ \E path \in EventPaths : w_path' = path
    /\ w_pc' = "event"
    /\ UNCHANGED <<last_modified, clock, w_stamp, h_pc, replies, stamps,
                   webRest>>

\* line 38, and the call of time.time() of line 40
TestPath ==
    /\ w_pc = "event"
    /\ IF Watched(w_path)
       THEN w_pc' = "stamp" /\ w_stamp' = clock /\ w_path' = w_path
       ELSE w_pc' = "idle" /\ w_stamp' = w_stamp /\ w_path' = ""
    /\ UNCHANGED <<last_modified, clock, h_pc, replies, stamps, webRest>>

\* line 40: the assignment to the global
StoreStamp ==
    /\ w_pc = "stamp"
    /\ last_modified' = w_stamp
    /\ stamps' = stamps \cup {w_stamp}
    /\ w_pc' = "idle"
    /\ w_path' = ""
    /\ UNCHANGED <<clock, w_stamp, h_pc, replies, webRest>>

\* lines 46-50 and 55: do_GET is entered for a request
DoGet ==
    /\ h_pc = "idle"
    /\ \E path \in RequestPaths :
         /\ path = "/reload" => Len(replies) < MaxReplies
         /\ h_pc' = IF path = "/reload" THEN "reload" ELSE "page"
    /\ UNCHANGED <<last_modified, clock, w_pc, w_path, w_stamp, replies,
                   stamps, webRest>>

\* line 51: the global is read and written to the response
WriteReload ==
    /\ h_pc = "reload"
    /\ replies' = Append(replies, [timestamp |-> last_modified, at |-> clock])
    /\ h_pc' = "idle"
    /\ UNCHANGED <<last_modified, clock, w_pc, w_path, w_stamp, stamps,
                   webRest>>

\* lines 55-76: the page or a static file is served
ServePage ==
    /\ h_pc = "page"
    /\ h_pc' = "idle"
    /\ UNCHANGED <<last_modified, clock, w_pc, w_path, w_stamp, replies,
                   stamps, webRest>>

WebNext ==
    Tick \/ OnModified \/ TestPath \/ StoreStamp \/ DoGet \/ WriteReload
    \/ ServePage

InitWeb == JoinIdle /\ SanIdle /\ TblIdle /\ FileIdle /\ WebInit

SpecWeb == InitWeb /\ [][WebNext]_vars

---------------------------------------------------------------------------
(* Properties of create_joined_dataset and of the scan, under Spec.        *)

Finished == pc \in {"returned", "raised"}

SkippedPaths == {skipped[k].path : k \in 1..Len(skipped)}

\* The files that were not skipped, in the order of the argument.
Joined == SelectSeq(file_names, LAMBDA p : p \notin SkippedPaths)

\* The session identifier each sample path is to give.
SessionIdOf(path) ==
    CASE path = DirA -> <<"a">>
      [] path = PlainB -> <<"b">>
      [] OTHER -> <<>>

\* The rows of datasets[1..k-1].
RECURSIVE Offset(_)
Offset(k) == IF k <= 1 THEN 0 ELSE Offset(k - 1) + Len(datasets[k - 1])

\* A step of the scan loop that has processed a row, and the row.
RowStep ==
    pc = "scan" /\ pc' = "scan" /\ Len(parsed_data') = Len(parsed_data) + 1
NewRow == parsed_data'[Len(parsed_data')]

\* C1: every row of the returned Dataset has direction 'up' or 'down'; a row
\* the scan labelled 'turning' is in no frame and not in the Dataset.
C1_NoTurningRow ==
    /\ \A k \in 1..Len(datasets) : \A j \in 1..Len(datasets[k]) :
          datasets[k][j].dir \in {"up", "down"}
    /\ pc = "returned" =>
          \A j \in 1..Len(result) : result[j].dir \in {"up", "down"}

\* A Dataset is returned that has a 'down' row in it: the boat turned, and
\* the rows of the turn are gone.
C1_Witness ==
    /\ pc = "returned"
    /\ \E j \in 1..Len(result) : result[j].dir = "down"
    /\ \E j \in 1..Len(result) : result[j].dir = "up"

\* C2: a row that parses, with minute <= 12, processed while
\* pending_transition is true, flips is_up exactly when
\* elements_since_transition is at least 8 at that moment.
C2_MinRunRule ==
    [][ ( /\ RowStep
          /\ pending_transition
          /\ ParseSplit(NewRow.split).exc = "none"
          /\ ParseSplit(NewRow.split).minute <= 12 )
        => ((is_up' # is_up) <=> (elements_since_transition >= 8)) ]_vars

\* Nine confirmed rows, a rollover, and the row that closes it is 'down'.
C2_Witness ==
    /\ pc = "scan"
    /\ Len(directions) = 11
    /\ \A j \in 1..9 : directions[j] = "up"
    /\ directions[10] = "turning"
    /\ directions[11] = "down"
    /\ ~is_up

\* C3: when some file fails and another succeeds the Joiner returns; the
\* Dataset is the rows of the frames of the successful files, one frame per
\* file that did not fail, and no row of it is tagged with a failed file.
C3_FailedFileSkipped ==
    (Finished /\ skipped # <<>> /\ Len(skipped) < Len(file_names)) =>
        /\ pc = "returned"
        /\ Len(datasets) = Len(file_names) - Len(skipped)
        /\ Len(result) = Offset(Len(datasets) + 1)
        /\ \A k \in 1..Len(datasets) : \A j \in 1..Len(datasets[k]) :
              /\ result[Offset(k) + j].stroke = datasets[k][j].stroke
              /\ result[Offset(k) + j].dist = datasets[k][j].dist
              /\ result[Offset(k) + j].rate = datasets[k][j].rate
              /\ result[Offset(k) + j].dir = datasets[k][j].dir
        /\ \A j \in 1..Len(result) : \A p \in SkippedPaths :
              result[j].file_name # SessionIdOf(p)

\* Two files, the second without the marker line: a Dataset with the rows of
\* the first is returned.
C3_Witness ==
    /\ pc = "returned"
    /\ Len(file_names) = 2
    /\ Len(skipped) = 1
    /\ skipped[1].path = file_names[2]
    /\ skipped[1].exc = "ValueError"
    /\ Len(result) = 2

\* C4: when every file failed, the Joiner raises ValueError and returns no
\* Dataset.
C4_AllFailedRaises ==
    (Finished /\ Len(skipped) = Len(file_names)) =>
        (pc = "raised" /\ result = <<>>)

\* Two files, both skipped, and the error is raised.
C4_Witness ==
    /\ pc = "raised"
    /\ Len(file_names) = 2
    /\ Len(skipped) = 2

\* C5: in the returned Dataset every row has a non-empty file_name, the base
\* name of its file; the rows of a file are contiguous and in the order of
\* the file, and the files are in the order of the argument.
C5_SessionOrder ==
    pc = "returned" =>
        /\ Len(datasets) = Len(Joined)
        /\ Len(result) = Offset(Len(datasets) + 1)
        /\ \A j \in 1..Len(result) : result[j].file_name # <<>>
        /\ \A k \in 1..Len(datasets) : \A j \in 1..Len(datasets[k]) :
              /\ result[Offset(k) + j].file_name = SessionIdOf(Joined[k])
              /\ j > 1 => result[Offset(k) + j - 1].stroke
                             < result[Offset(k) + j].stroke

\* Two sessions in the Dataset, the first with two rows, the second with
\* its first row dropped.
C5_Witness ==
    /\ pc = "returned"
    /\ Len(datasets) = 2
    /\ Len(datasets[1]) = 2
    /\ Len(datasets[2]) = 1
    /\ result[3].stroke = 2
    /\ result[1].file_name # result[3].file_name

\* C10: a row whose split is missing or does not parse is labelled
\* 'turning' and leaves is_up, pending_transition and
\* elements_since_transition as they were; the scan goes on to the next row
\* and never ends in the file being skipped.
C10_UnparsedRowIsTurning ==
    [][ pc = "scan" =>
          /\ skipped' = skipped
          /\ (RowStep /\ ParseSplit(NewRow.split).exc # "none") =>
                /\ directions' = Append(directions, "turning")
                /\ UNCHANGED <<is_up, pending_transition,
                               elements_since_transition>> ]_vars

---------------------------------------------------------------------------
(* Properties of the clean-up, under SpecSan.  They are stated on the      *)
(* coerced input: In(j) is row j with its two numeric cells as numbers.    *)

Cleaned == san_pc \in {"once", "twice"}

InDist(j) == ToNumeric(san_df[j].dist)
InRate(j) == ToNumeric(san_df[j].rate)

\* The distance of row j is more than 100 above that of the row before it.
JumpAt(j) ==
    /\ j > 1
    /\ IsNum(InDist(j)) /\ IsNum(InDist(j - 1))
    /\ InDist(j).n - InDist(j - 1).n > 1000

\* The stroke rate of row j is a number below 10 or above 34.
OutOfBounds(j) == IsNum(InRate(j)) /\ (InRate(j).n < 100 \/ InRate(j).n > 340)

Nulled(row) == row.dist = NaN /\ row.rate = NaN

\* C6: the jump rule nulls distance and stroke rate of a row exactly when
\* its distance exceeds that of the row before it by more than 100: such a
\* row is nulled, and a row without the jump (the difference is 100 or
\* less, negative, or not a number) whose stroke rate is not out of bounds
\* keeps both values.
C6_JumpRule ==
    Cleaned =>
        /\ Len(san_once) = Len(san_df)
        /\ \A j \in 1..Len(san_df) :
              /\ JumpAt(j) => Nulled(san_once[j])
              /\ (~JumpAt(j) /\ ~OutOfBounds(j)) =>
                    /\ san_once[j].dist = InDist(j)
                    /\ san_once[j].rate = InRate(j)

\* Distances 0, 10, 20, 500, 30: the row with 500 is nulled, and only it.
C6_Witness ==
    /\ san_pc = "once"
    /\ san_df = JumpExample
    /\ Nulled(san_once[4])
    /\ \A j \in {1, 2, 3, 5} : IsNum(san_once[j].dist) /\ IsNum(san_once[j].rate)

\* C7: a row whose stroke rate is below 10 or above 34 has both cells
\* nulled; a row whose stroke rate is from 10 to 34, the ends included, is
\* nulled only if the jump rule nulls it.
C7_BoundsRule ==
    Cleaned =>
        \A j \in 1..Len(san_df) :
            /\ OutOfBounds(j) => Nulled(san_once[j])
            /\ (IsNum(InRate(j)) /\ ~OutOfBounds(j) /\ san_once[j].rate = NaN)
                  => JumpAt(j)
            /\ (IsNum(InRate(j)) /\ ~OutOfBounds(j) /\ ~JumpAt(j))
                  => san_once[j].rate.n \in 100..340

\* Stroke rates 9, 35, 10, 34: the first two rows are nulled, the last two
\* keep 10 and 34.
C7_Witness ==
    /\ san_pc = "once"
    /\ san_df = BoundsExample
    /\ Nulled(san_once[1]) /\ Nulled(san_once[2])
    /\ san_once[3].rate = Num(100) /\ san_once[4].rate = Num(340)
    /\ IsNum(san_once[3].dist) /\ IsNum(san_once[4].dist)

\* C8: the clean-up of a frame it has already cleaned changes nothing.
C8_Idempotent == san_pc = "twice" => san_twice = san_once

\* The second pass ran on a frame in which a row the first pass nulled is
\* followed by a row that kept its distance.
C8_Witness ==
    /\ san_pc = "twice"
    /\ \E j \in 2..Len(san_df) :
          /\ JumpAt(j - 1)
          /\ san_once[j - 1].dist = NaN
          /\ IsNum(san_once[j].dist)
          /\ IsNum(san_twice[j].dist)

\* C9: the clean-up keeps the rows and their order; on a row it changes
\* nothing but the distance and the stroke rate, which become a number or
\* NaN.
C9_RowsKept ==
    Cleaned =>
        /\ Len(san_once) = Len(san_df)
        /\ \A j \in 1..Len(san_df) :
              /\ DOMAIN san_once[j] = DOMAIN san_df[j]
              /\ san_once[j].idx = san_df[j].idx
              /\ san_once[j].stroke = san_df[j].stroke
              /\ san_once[j].split = san_df[j].split
              /\ san_once[j].dir = san_df[j].dir
              /\ san_once[j].dist.k \in {"num", "nan"}
              /\ san_once[j].rate.k \in {"num", "nan"}

\* Three rows, the middle one nulled and still in its place.
C9_Witness ==
    /\ san_pc = "once"
    /\ Len(san_df) = 3
    /\ IsNum(InDist(2)) /\ IsNum(InRate(2))
    /\ Nulled(san_once[2])
    /\ ~Nulled(san_once[1]) /\ ~Nulled(san_once[3])
    /\ san_once[2].idx = 4


---------------------------------------------------------------------------
(* Properties of the scan from its first row on, under Spec.               *)

\* The split cells of the sample rows that parse, to a minute of at most
\* 12 and to a minute over 12.
LowCells ==
    {c \in SplitCells \cup {Absent} :
        /\ ParseSplit(c).exc = "none"
        /\ ParseSplit(c).minute <= MinuteLimit}
HighCells ==
    {c \in SplitCells \cup {Absent} :
        /\ ParseSplit(c).exc = "none"
        /\ ParseSplit(c).minute > MinuteLimit}

\* The rows of df whose split parses to a minute of at most 12.
LowRows(df) == {j \in 1..Len(df) : df[j].split \in LowCells}

\* The rows kept of what the scan has labelled so far.
KeptSoFar == DropTurning(WithDir(parsed_data, directions))

\* C12: in the scan of a session every row before the first row that parses
\* with minute <= 12 is labelled 'turning' and dropped; that row leaves
\* is_up as it was at the start, true, and is labelled 'up'; so the first
\* row of every frame is 'up'.
C12_FirstKeptRowIsUp ==
    /\ pc = "scan" =>
          IF LowRows(parsed_data) = {}
          THEN /\ \A j \in 1..Len(directions) : directions[j] = "turning"
               /\ KeptSoFar = <<>>
               /\ is_up /\ pending_transition
               /\ elements_since_transition = 0
          ELSE LET f == Min(LowRows(parsed_data))
                   first == KeptSoFar[1]
               IN  /\ \A j \in 1..(f - 1) : directions[j] = "turning"
                   /\ directions[f] = "up"
                   /\ first.idx = parsed_data[f].idx
                   /\ first.dir = "up"
    /\ \A k \in 1..Len(datasets) :
          datasets[k] # <<>> => datasets[k][1].dir = "up"

\* A session that begins with a row over 12 minutes and a row whose text
\* does not parse: its frame begins with the third row, labelled 'up'.
C12_Witness ==
    /\ Len(datasets) = 1
    /\ datasets[1] # <<>>
    /\ datasets[1][1].idx = 3
    /\ datasets[1][1].dir = "up"

\* The rows of df whose split parses to a minute over 12.
HighRows(df) == {j \in 1..Len(df) : df[j].split \in HighCells}

\* C13: as long as the scan of a session has met no row with a minute over
\* 12, is_up is true and every row kept is labelled 'up', however many
\* rows there are.
C13_NoRolloverNoFlip ==
    (pc = "scan" /\ HighRows(parsed_data) = {}) =>
        /\ is_up
        /\ \A j \in 1..Len(directions) : directions[j] \in {"up", "turning"}
        /\ LET kept == KeptSoFar
           IN  \A j \in 1..Len(kept) : kept[j].dir = "up"

\* More than eight rows, none over 12 minutes, all kept.
C13_Witness ==
    /\ pc = "scan"
    /\ HighRows(parsed_data) = {}
    /\ Len(KeptSoFar) > MinRun + 1
    /\ Len(KeptSoFar) = Len(parsed_data)

\* Steps of the loop of create_joined_dataset: a file is entered, a file is
\* left with its frame appended, a file is left skipped.
EnterFile == pc = "loop" /\ pc' = "scan"
LeaveFile == pc = "scan" /\ pc' = "loop"

\* C14: every file is scanned from the same initial locals, and the frame
\* a file adds to datasets is split_frames of that file's own rows, tagged
\* with its own name, whatever files came before it, failed ones included;
\* a file that fails adds nothing and changes no frame.
C14_SessionScoped ==
    [][ /\ EnterFile =>
              /\ directions' = <<>>
              /\ is_up' /\ pending_transition'
              /\ elements_since_transition' = 0
        /\ LeaveFile =>
              IF Len(skipped') = Len(skipped)
              THEN datasets' =
                     Append(datasets, Tagged(SplitFrames(parsed_data),
                                             Basename(file_names[i])))
              ELSE datasets' = datasets ]_vars

\* The first file failed in the middle of its scan, after rows of it were
\* labelled, and the second file has added its rows.
C14_Witness ==
    /\ Len(file_names) = 2
    /\ Len(skipped) = 1
    /\ skipped[1] = [path |-> file_names[1], exc |-> "TypeError"]
    /\ Len(datasets) = 1
    /\ Len(datasets[1]) = MaxRowsBatch

\* A step of the scan on a row that closes a suspected turn: the row
\* parses, has a minute of at most 12, and pending_transition is set.
ClosingStep ==
    /\ RowStep
    /\ pending_transition
    /\ ParseSplit(NewRow.split).exc = "none"
    /\ ParseSplit(NewRow.split).minute <= MinuteLimit

NewLabel == directions'[Len(directions')]

\* C16: a row that closes a suspected turn leaves
\* elements_since_transition at 1, itself counted from 0, whether is_up
\* flipped or not; any other row adds 1 when it is labelled 'up' or 'down'
\* and nothing when it is labelled 'turning'.  So the count at the next
\* closing row is the rows confirmed since this one, and rows confirmed
\* before a false alarm are not in it.
C16_CountRestartsAtClose ==
    [][ /\ ClosingStep =>
              /\ elements_since_transition' = 1
              /\ ~pending_transition'
              /\ NewLabel # "turning"
        /\ (RowStep /\ ~ClosingStep) =>
              elements_since_transition' =
                  IF NewLabel = "turning" THEN elements_since_transition
                  ELSE elements_since_transition + 1 ]_vars

\* Four confirmed rows, a false alarm, four more confirmed rows, a
\* rollover, and the row that closes it: eight rows confirmed in all, yet
\* the last row is 'up', since only four were counted.
C16_Witness ==
    /\ pc = "scan"
    /\ Len(directions) = 11
    /\ \A j \in {1, 2, 3, 4, 6, 7, 8, 9, 11} : directions[j] = "up"
    /\ \A j \in {5, 10} :
          /\ directions[j] = "turning"
          /\ parsed_data[j].split = Str(HighText)
    /\ is_up
    /\ elements_since_transition = 1

\* Row j of the frame df is the last of a run of at least MinRun rows of
\* its direction.
EndsLongRun(df, j) ==
    /\ j >= MinRun
    /\ \A h \in (j - MinRun + 1)..j : df[h].dir = df[j].dir

\* The places of the frame df where the direction changes.
Changes(df) == {j \in 1..(Len(df) - 1) : df[j].dir # df[j + 1].dir}

\* C17: where the direction differs between two consecutive kept rows of a
\* session, a dropped row with a minute over 12 lies between the two in the
\* input, and the run of equal direction that ends at the first of the two
\* has at least 8 rows; every frame added to datasets has all its runs but
\* the last at least 8 rows long.
C17_ChangeNeedsRolloverAndRun ==
    /\ pc = "scan" =>
          LET kept == KeptSoFar
          IN  \A j \in Changes(kept) :
                  /\ \E h \in HighRows(parsed_data) :
                        /\ kept[j].idx < parsed_data[h].idx
                        /\ parsed_data[h].idx < kept[j + 1].idx
                        /\ directions[h] = "turning"
                  /\ EndsLongRun(kept, j)
    /\ \A k \in 1..Len(datasets) :
          \A j \in Changes(datasets[k]) : EndsLongRun(datasets[k], j)

\* A frame in datasets whose direction changes from 'up' to 'down'.
C17_Witness ==
    /\ pc = "loop"
    /\ Len(datasets) = 1
    /\ \E j \in Changes(datasets[1]) :
          datasets[1][j].dir = "up" /\ datasets[1][j + 1].dir = "down"

\* C18: when create_joined_dataset ends, every file of the list has either
\* been skipped for an exception or added a frame to datasets; it raises
\* exactly when every file was skipped (so also for the empty list), and
\* otherwise returns the rows of the frames, which are no rows at all when
\* no row of any valid file was kept.
C18_RaisesIffNoneValid ==
    Finished =>
        /\ Len(datasets) + Len(skipped) = Len(file_names)
        /\ pc = "raised" <=> Len(skipped) = Len(file_names)
        /\ pc = "returned" =>
              Len(result) = Offset(Len(datasets) + 1)

\* One file failed, the other went through the pipeline and kept no row:
\* a Dataset without rows is returned.
C18_Witness ==
    /\ pc = "returned"
    /\ Len(file_names) = 2
    /\ Len(skipped) = 1
    /\ datasets = << <<>> >>
    /\ result = <<>>

---------------------------------------------------------------------------
(* Properties of the loop body on one file, under SpecFile.                *)

\* The table with another row in the place of its first row.
WithFirstRow(table, r) == <<TableRow(0, r)>> \o Tail(table)

\* Rows to put in the place of the first: the sample first rows, and a row
\* over 12 minutes.
OtherFirstRows ==
    FirstRows \cup
        {[split |-> Str(HighText), dist |-> Str(<<"2", "5", "0">>),
          rate |-> Twenties]}

\* C15: the first row of the table get_table returns is in no frame, and
\* the outcome of the file (its frame with labels, distances and rates, or
\* its failure) is the same whichever sample row stands first: the row of
\* units, a row with an empty split cell and a large distance, a row of at
\* most 12 minutes, a row over 12 minutes.
C15_FirstRowDiscarded ==
    (f_pc = "done" /\ f_table # <<>>) =>
        /\ \A j \in 1..Len(f_out.frame) :
              /\ f_out.frame[j].idx # f_table[1].idx
              /\ f_out.frame[j].stroke # f_table[1].stroke
        /\ \A r \in OtherFirstRows :
              f_out = ProcessFile(WithFirstRow(f_table, r), PlainB)

\* A table whose first row has an empty split cell and a distance 300 over
\* that of the next row, and every row after it is in the frame: the first
\* row neither ended the session nor made the second row look a jump.
C15_Witness ==
    /\ f_pc = "done"
    /\ Len(f_table) > 2
    /\ f_table[1].split = NaN
    /\ f_table[2].dist = Str(<<"1", "0", "0">>)
    /\ f_out.exc = "none"
    /\ Len(f_out.frame) = Len(f_table) - 1
    /\ f_out.frame[1].dist = Num(Tenths(100))

\* The numeric cells of the row of the table that has index label k, as
\* they are before the clean-up.
TableDist(k) == ToNumeric(f_table[k + 1].dist)
TableRate(k) == ToNumeric(f_table[k + 1].rate)

\* Row j of the frame has a distance more than 100 above that of the row
\* kept before it.
SurvivorJump(j) ==
    /\ j > 1
    /\ IsNum(TableDist(f_out.frame[j].idx))
    /\ IsNum(TableDist(f_out.frame[j - 1].idx))
    /\ TableDist(f_out.frame[j].idx).n - TableDist(f_out.frame[j - 1].idx).n
          > Tenths(JumpLimit)

\* C19: the jump rule compares each kept row with the row kept before it,
\* on the distances as read: a kept row is nulled when its distance is more
\* than 100 above that of the previous kept row, dropped rows between them
\* or not, and whether or not that previous row is itself nulled; the first
\* kept row and a row whose previous kept row has no distance keep their
\* values (the stroke rates of these tables are all within bounds).
C19_DiffOverKeptRows ==
    (f_pc = "done" /\ f_out.exc = "none") =>
        \A j \in 1..Len(f_out.frame) :
            IF SurvivorJump(j)
            THEN Nulled(f_out.frame[j])
            ELSE /\ f_out.frame[j].dist = TableDist(f_out.frame[j].idx)
                 /\ f_out.frame[j].rate = TableRate(f_out.frame[j].idx)
                 /\ IsNum(f_out.frame[j].rate)

\* A kept row is nulled for its jump over the row kept before it, with a
\* dropped row between them whose distance is the same as its own.
C19_Witness ==
    /\ f_pc = "done" /\ f_out.exc = "none"
    /\ \E j \in 2..Len(f_out.frame) :
          /\ f_out.frame[j].idx = f_out.frame[j - 1].idx + 2
          /\ Nulled(f_out.frame[j])
          /\ TableDist(f_out.frame[j].idx) = TableDist(f_out.frame[j].idx - 1)

---------------------------------------------------------------------------
(* Properties of get_table, under SpecTable.                               *)

\* The lines of the file that are the marker line.
MarkerLines(file) == {m \in 1..Len(file.lines) : file.lines[m] = Marker}

\* C11: get_table fails with ValueError whenever the text of a file that
\* could be opened has no marker line "Per-Stroke Data:"; and when it
\* returns a table, the header of the table is the line right after the
\* first marker line and every row is a line below it.
C11_MarkerLine ==
    (t_pc = "done" /\ Openable(t_path)) =>
        /\ MarkerLines(t_file) = {} => t_out.exc = "ValueError"
        /\ t_out.exc = "none" =>
              /\ MarkerLines(t_file) # {}
              /\ t_out.header = Min(MarkerLines(t_file)) + 1
              /\ \A n \in t_out.rows : n > t_out.header


---------------------------------------------------------------------------
(* Properties of the live-reload helper, under SpecWeb.                    *)

\* What a step may do to last_modified and to the times on record.
WriteDiscipline ==
    /\ last_modified' # last_modified =>
          /\ w_pc = "stamp" /\ w_pc' = "idle"
          /\ EndsWith(w_path, WATCHED_FILE)
          /\ last_modified' = w_stamp
    /\ stamps' # stamps =>
          /\ EndsWith(w_path, WATCHED_FILE)
          /\ stamps' = stamps \cup {w_stamp}
    /\ (h_pc' # h_pc \/ replies' # replies) =>
          last_modified' = last_modified
    /\ w_stamp' # w_stamp => w_stamp' = clock

\* C20: under every interleaving of the two threads, last_modified changes
\* only in the step of the watcher that stores the time taken for an event
\* whose path ends with "index.html"; a step for another event and every
\* step of a GET request leave it as it is; and every /reload response
\* carries the start-up value or the time taken for such an event, not
\* later than the response.
C20_OnlyWatcherWrites ==
    /\ [][WriteDiscipline]_vars
    /\ [](\A k \in 1..Len(replies) :
            /\ replies[k].timestamp \in {StartTime} \cup stamps
            /\ replies[k].timestamp <= replies[k].at)

\* A response with the start-up value, then an index.html event, then a
\* response with the time of that event, sent later than the event.
C20_Witness ==
    /\ Len(replies) = 2
    /\ replies[1].timestamp = StartTime
    /\ replies[2].timestamp > StartTime
    /\ replies[2].timestamp < replies[2].at


===========================================================================
